---- MODULE Spec2Model ----
(***************************************************************************)
(* prompt-sync-plus: the synchronous prompt reader of src/src/index.ts.     *)
(*                                                                         *)
(* A string is a sequence of character codes.  One action of the model is  *)
(* one pass through the body of the read loop (index.ts:204-366), or the   *)
(* start of a prompt() invocation (index.ts:79-133).                       *)
(***************************************************************************)
EXTENDS Integers, Sequences, FiniteSets, TLC

\* ------------------------------------------------------------------ bounds
\* A read is refused once the line holds MaxLen characters.
MaxLen == 2
\* At most MaxPresses trigger presses are made in a row.
MaxPresses == 5
\* The prompt is invoked again on a history of at most MaxHistory lines (and
\* not on one that started empty).
MaxHistory == 2

\* ------------------------------------------------------- program constants
KeyInterrupt == 3
KeyEot == 4
KeyBackspace == 127
KeyBackspaceWin == 8
MinPrintable == 32
MaxPrintable == 126
BufSize == 3
TableColumns == 3
ExitInterrupt == 130
ExitEot == 0
\* Key.ENTER and the default trigger key code live in types.ts
KeyEnter == 13
KeyTab == 9

Esc == 27
LBracket == 91
UpSeq == <<Esc, LBracket, 65>>
DownSeq == <<Esc, LBracket, 66>>
RightSeq == <<Esc, LBracket, 67>>
LeftSeq == <<Esc, LBracket, 68>>

\* characters used by the inputs: "a", "c", "y" and the mask "*"
Letters == <<97, 99, 121, 42>>
ChA == Letters[1]
ChC == Letters[2]
ChY == Letters[3]
ChStar == Letters[4]

\* JavaScript values that are not strings
Undefined == <<-1>>
Null == <<-2>>
False == <<-3>>
IsString(v) == \A i \in 1..Len(v) : v[i] >= 0
ConfigObject == <<-4>>
\* the empty string, undefined, null and false are falsy; an object is truthy
Truthy(v) == IF IsString(v) THEN Len(v) > 0 ELSE v = ConfigObject

\* process.platform == "win32"
IsWin32 == FALSE

\* ----------------------------------------------------------------- inputs
\* What one readSync call can deliver: the bytes of one key press, or a
\* chunk of pasted text.
SingleReads ==
    { <<KeyInterrupt>>, <<KeyEot>>, <<KeyEnter>>, <<KeyTab>>, <<KeyBackspace>>,
      <<ChA>>, <<ChC>> }
MultiReads ==
    { UpSeq, DownSeq, LeftSeq, RightSeq, <<ChC, ChA>>, <<Esc, LBracket>> }
Reads == SingleReads \cup MultiReads

\* the words the configured search function knows, in its order
Candidates == << <<ChA>>, <<ChC, ChA>>, <<ChC, ChA, ChC>>, <<ChC, ChA, ChA>> >>

IsPrefix(p, s) == Len(p) <= Len(s) /\ SubSeq(s, 1, Len(p)) = p

\* searchFn: the candidates that start with the term (a pure function
\* string -> string[], supplied by the caller)
SearchPrefix(term) == SelectSeq(Candidates, LAMBDA w : IsPrefix(term, w))
\* ---------------------------------------------------------- configuration
\* promptConfig: echo is the mask character (0: unmasked); autocomplete is
\* "none" when no searchFn is configured, else the configured behavior.
AllConfigs ==
    [ echo : {0, ChStar}, sigint : BOOLEAN, eot : BOOLEAN, history : BOOLEAN,
      autocomplete : {"none", "cycle", "suggest", "hybrid"} ]

\* The configurations explored: masking with every other feature; history and
\* autocomplete each on its own; the two exit flags (each is read in one
\* branch only, index.ts:290 and index.ts:299) set together.
Configs ==
    { c \in AllConfigs :
        /\ c.history => c.autocomplete = "none"
        /\ c.sigint = c.eot
        /\ c.sigint => (c.echo = 0 /\ ~c.history /\ c.autocomplete = "none") }

\* the second argument of prompt(): absent, a default string, or a Config
Values == { Undefined, <<ChY>>, ConfigObject }

\* the history object the caller configures holds these lines at first, or
\* none
InitHistory == << <<ChA>>, <<ChC, ChA>> >>
InitHistories == { << >>, InitHistory }

\* ------------------------------------------------------------ pure helpers
\* fs.readSync(fileDescriptor, buf, 0, 3, null): the bytes read overwrite the
\* front of buf, the rest of buf keeps what it held
ReadSync(b, rd) == [ i \in 1..BufSize |-> IF i <= Len(rd) THEN rd[i] ELSE b[i] ]

\* Buffer.alloc(3)
BufferAlloc == [ i \in 1..BufSize |-> 0 ]

\* buf.toString(): UTF-8 decoding of the whole buffer; a byte that is no
\* ASCII character decodes to U+FFFD
BufToString(b) == [ i \in 1..Len(b) |-> IF b[i] < 128 THEN b[i] ELSE 65533 ]

\* userInput.replace(/\0/g, "")
StripNulls(s) == SelectSeq(s, LAMBDA c : c # 0)

\* Boolean(promptConfig.echo)
Masked(cfg) == cfg.echo # 0

\* typeof value === "string" && value
DefaultValue(v) == IF IsString(v) THEN v ELSE False

ReturnValueDefaultFirst(input, dflt) ==
    IF Truthy(dflt) THEN dflt ELSE IF Truthy(input) THEN input ELSE << >>

\* userInput || defaultValue || ""
ReturnValue(input, dflt) ==
    IF Truthy(input) THEN input ELSE IF Truthy(dflt) THEN dflt ELSE << >>

\* the text promptPrint writes after the prompt
PromptPrintLine(cfg, str) ==
    IF Masked(cfg) THEN [ i \in 1..Len(str) |-> cfg.echo ] ELSE str

MoveLeftUnclamped(pos) == pos - 1

\* left arrow: insertPosition = --insertPosition < 0 ? 0 : insertPosition
MoveLeft(pos) == IF pos - 1 < 0 THEN 0 ELSE pos - 1

\* right arrow: ++insertPosition > userInput.length ? userInput.length : insertPosition
MoveRight(pos, len) == IF pos + 1 > len THEN len ELSE pos + 1

RemoveAt(str, pos) == SubSeq(str, 1, pos) \o SubSeq(str, pos + 2, Len(str))

\* backspace: slice(0, insertPosition - 1) + slice(insertPosition)
RemoveBefore(str, pos) == SubSeq(str, 1, pos - 1) \o SubSeq(str, pos + 1, Len(str))

InsertAtEnd(str, pos, c) == str \o <<c>>

\* printable: slice(0, insertPosition) + fromCharCode(c) + slice(insertPosition)
InsertAt(str, pos, c) == SubSeq(str, 1, pos) \o <<c>> \o SubSeq(str, pos + 1, Len(str))

\* autocompleteCycleIndex >= searchResults.length - 1 ? 0 : autocompleteCycleIndex + 1
NextCycleIndex(idx, n) == IF idx >= n - 1 THEN 0 ELSE idx + 1

RowCountFullRows(n) == n \div TableColumns

\* tablify(...).rowCount: rows of three cells, the last one padded
RowCount(n) == (n \div TableColumns) + (IF n % TableColumns # 0 THEN 1 ELSE 0)

\* clearSuggestTable(countRows): erases the countRows rows below the line
ClearSuggestTable(rows, countRows) == rows \ (1..countRows)

\* backspace / printable / ignored byte at the end of the loop body:
\* the line, the cursor and whether promptPrint is reached
EditKey(first, str, pos) ==
    IF first = KeyBackspace \/ (IsWin32 /\ first = KeyBackspaceWin)
    THEN IF pos = 0
         THEN [ userInput |-> str, insertPosition |-> pos, printed |-> FALSE ]
         ELSE [ userInput |-> RemoveBefore(str, pos), insertPosition |-> pos - 1,
                printed |-> TRUE ]
    ELSE IF first < MinPrintable \/ first > MaxPrintable
         THEN [ userInput |-> str, insertPosition |-> pos, printed |-> FALSE ]
         ELSE [ userInput |-> InsertAt(str, pos, first), insertPosition |-> pos + 1,
                printed |-> TRUE ]

\* ------------------------------------------------------------------ state
VARIABLES
    pc,                      \* "idle", "loop", "returned", "exited", "threw"
    promptConfig, value,     \* the arguments of the invocation
    userInput, insertPosition,
    savedUserInput, savedInsertPosition,
    numRowsToClear, buf,
    lastRead,                \* the bytes the last readSync delivered
    autoCompleteSearchTerm, autocompleteCycleIndex,
    fdOpen, isRaw, wasRaw,   \* the terminal device and process.stdin
    shown, gridRows,         \* the terminal: text after the prompt, grid rows drawn
    result, exitCode,        \* what prompt() returned / process.exit status
    hist, hIx,               \* the history object: lines and traversal index
    searchArg,               \* the term the last pass gave searchFn, if it called it
    presses, sessTerm, firstSel, sessFresh,  \* the run of trigger presses in progress
    navUps, navDowns, navBase,     \* the run of up/down presses in progress
    typed                    \* the characters typed, while nothing else was read

cfgVars == <<promptConfig, value, wasRaw>>
lineVars == <<userInput, insertPosition>>
snapVars == <<savedUserInput, savedInsertPosition>>
acVars == <<autoCompleteSearchTerm, autocompleteCycleIndex, numRowsToClear>>
devVars == <<fdOpen, isRaw>>
scrVars == <<shown, gridRows>>
endVars == <<result, exitCode>>
histVars == <<hist, hIx>>
pressVars == <<searchArg, presses, sessTerm, firstSel, sessFresh>>
navVars == <<navUps, navDowns, navBase>>
vars == <<pc, cfgVars, lineVars, snapVars, acVars, buf, lastRead, devVars,
          scrVars, endVars, histVars, pressVars, navVars, typed>>

\* ---------------------------------------------------------------- history
\* the HistoryNavigator the caller supplies; hIx counts from 0, Len(hist) is
\* pastEnd
AtStart == hIx <= 0
AtEnd == hIx = Len(hist)
PastEnd == hIx >= Len(hist)
AtPenultimate == hIx = Len(hist) - 1
\* the line prev() returns and the index it leaves
PrevIx == hIx - 1
NextIx == hIx + 1
LineAt(ix) == IF ix + 1 \in 1..Len(hist) THEN hist[ix + 1] ELSE Undefined

CallsPrevAtStart == ~Masked(promptConfig) /\ promptConfig.history

\* up arrow, index.ts:211-213: history.prev() is reached
CallsPrev == ~Masked(promptConfig) /\ promptConfig.history /\ ~AtStart

\* down arrow, index.ts:224-226: history.next() is reached
CallsNext == ~Masked(promptConfig) /\ promptConfig.history /\ ~PastEnd

\* down arrow, index.ts:228: the snapshot is restored instead of a history line
RestoresSnapshotNever == FALSE

RestoresSnapshot == AtPenultimate

\* Enter, index.ts:316: the line is pushed
PushesMasked == Len(userInput) # 0

Pushes == ~Masked(promptConfig) /\ Len(userInput) # 0

\* ^C, index.ts:294: return null
InterruptReturnLine == userInput

InterruptReturn == Null

\* ------------------------------------------------------------------- Init
\* PromptSync(config) has returned the prompt function; nothing was read yet
Init ==
    /\ pc = "idle"
    /\ promptConfig \in Configs
    /\ value = Undefined
    /\ userInput = << >> /\ insertPosition = 0
    /\ savedUserInput = << >> /\ savedInsertPosition = 0
    /\ numRowsToClear = 0
    /\ buf = BufferAlloc /\ lastRead = << >>
    /\ autoCompleteSearchTerm = << >> /\ autocompleteCycleIndex = 0
    /\ fdOpen = FALSE
    /\ isRaw \in BOOLEAN /\ wasRaw = FALSE
    /\ shown = << >> /\ gridRows = {}
    /\ result = Undefined /\ exitCode = -1
    /\ hist \in (IF promptConfig.history THEN InitHistories ELSE {<< >>})
    /\ hIx = Len(hist)
    /\ searchArg = Undefined
    /\ presses = 0 /\ sessTerm = << >> /\ firstSel = << >> /\ sessFresh = FALSE
    /\ navUps = 0 /\ navDowns = 0 /\ navBase = << << >>, 0 >>
    /\ typed = << >>

\* the pass is no cycle press: no run of presses is in progress, no search made
NoPress ==
    /\ presses' = 0 /\ sessTerm' = << >> /\ firstSel' = << >> /\ sessFresh' = FALSE
    /\ searchArg' = Undefined
NoNav == navUps' = 0 /\ navDowns' = 0 /\ navBase' = << << >>, 0 >>
\* the pass is no printable insertion
NoTyped == typed' = Undefined

\* prompt(ask, value): index.ts:79-133; the first invocation, or the next one
\* after an invocation has returned (the history object is shared)
Invoke ==
    /\ \/ pc = "idle"
       \/ /\ pc = "returned"
          /\ \/ ~promptConfig.history
             \/ Len(hist) >= Len(InitHistory) /\ Len(hist) <= MaxHistory
    /\ pc' = "loop"
    /\ value' \in Values
    /\ UNCHANGED promptConfig
    /\ userInput' = << >> /\ insertPosition' = 0
    /\ savedUserInput' = << >> /\ savedInsertPosition' = 0
    /\ numRowsToClear' = 0
    /\ buf' = BufferAlloc /\ lastRead' = << >>
    /\ autoCompleteSearchTerm' = << >> /\ autocompleteCycleIndex' = 0
    /\ fdOpen' = TRUE
    /\ wasRaw' = isRaw
    /\ isRaw' = TRUE
    /\ shown' = << >> /\ gridRows' = {}
    /\ result' = Undefined /\ exitCode' = -1
    /\ UNCHANGED histVars
    /\ NoPress /\ NoNav /\ typed' = << >>

\* ------------------------------------------------- reads of 2 or 3 bytes
\* countBytesRead > 1: the whole buffer is compared with the arrow sequences
\* (index.ts:207-280); none of these branches touches the autocomplete
\* session or the suggestion grid.

\* case "\u001b[A": index.ts:210-222
UpArrow ==
    \E rd \in MultiReads :
    LET b == ReadSync(buf, rd)
        acts == CallsPrev
    IN  /\ pc = "loop"
        /\ BufToString(b) = UpSeq
        /\ buf' = b /\ lastRead' = rd
        /\ IF acts
           THEN /\ IF AtEnd
                   THEN savedUserInput' = userInput /\ savedInsertPosition' = insertPosition
                   ELSE UNCHANGED snapVars
                /\ hIx' = PrevIx
                /\ userInput' = LineAt(PrevIx)
                /\ insertPosition' = Len(userInput')
                /\ shown' = userInput'
                /\ UNCHANGED <<hist, gridRows>>
           ELSE UNCHANGED <<snapVars, histVars, lineVars, scrVars>>
        /\ IF acts /\ PastEnd
           THEN navUps' = 1 /\ navDowns' = 0 /\ navBase' = <<userInput, insertPosition>>
           ELSE IF acts /\ navUps > 0 /\ navDowns = 0
                THEN navUps' = navUps + 1 /\ UNCHANGED <<navDowns, navBase>>
                ELSE NoNav
        /\ NoPress /\ NoTyped
        /\ UNCHANGED <<pc, cfgVars, acVars, devVars, endVars>>

\* case "\u001b[B": index.ts:223-244
DownArrow ==
    \E rd \in MultiReads :
    LET b == ReadSync(buf, rd)
        acts == CallsNext
    IN  /\ pc = "loop"
        /\ BufToString(b) = DownSeq
        /\ buf' = b /\ lastRead' = rd
        /\ IF acts
           THEN /\ IF RestoresSnapshot
                   THEN userInput' = savedUserInput /\ insertPosition' = savedInsertPosition
                   ELSE userInput' = LineAt(NextIx) /\ insertPosition' = Len(userInput')
                /\ hIx' = NextIx
                /\ shown' = userInput'
                /\ UNCHANGED <<hist, gridRows>>
           ELSE UNCHANGED <<histVars, lineVars, scrVars>>
        /\ IF acts /\ navUps > 0
           THEN navDowns' = navDowns + 1 /\ UNCHANGED <<navUps, navBase>>
           ELSE NoNav
        /\ NoPress /\ NoTyped
        /\ UNCHANGED <<pc, cfgVars, snapVars, acVars, devVars, endVars>>

\* case "\u001b[D": index.ts:245-250
LeftArrow ==
    \E rd \in MultiReads :
    LET b == ReadSync(buf, rd)
    IN  /\ pc = "loop"
        /\ BufToString(b) = LeftSeq
        /\ buf' = b /\ lastRead' = rd
        /\ insertPosition' = (IF Masked(promptConfig) THEN insertPosition
                              ELSE MoveLeft(insertPosition))
        /\ NoPress /\ NoNav /\ NoTyped
        /\ UNCHANGED <<pc, cfgVars, userInput, snapVars, acVars, devVars, scrVars,
                       endVars, histVars>>

\* case "\u001b[C": index.ts:251-260
RightArrow ==
    \E rd \in MultiReads :
    LET b == ReadSync(buf, rd)
    IN  /\ pc = "loop"
        /\ BufToString(b) = RightSeq
        /\ buf' = b /\ lastRead' = rd
        /\ insertPosition' = (IF Masked(promptConfig) THEN insertPosition
                              ELSE MoveRight(insertPosition, Len(userInput)))
        /\ NoPress /\ NoNav /\ NoTyped
        /\ UNCHANGED <<pc, cfgVars, userInput, snapVars, acVars, devVars, scrVars,
                       endVars, histVars>>

\* default: index.ts:261-277, the buffer is appended as text
Literal ==
    \E rd \in MultiReads :
    LET b == ReadSync(buf, rd)
        text == StripNulls(userInput \o BufToString(b))
    IN  /\ pc = "loop"
        /\ BufToString(b) \notin {UpSeq, DownSeq, LeftSeq, RightSeq}
        /\ Len(text) <= MaxLen
        /\ userInput' = text
        /\ insertPosition' = Len(text)
        /\ shown' = PromptPrintLine(promptConfig, text)
        /\ buf' = BufferAlloc /\ lastRead' = rd
        /\ NoPress /\ NoNav /\ NoTyped
        /\ UNCHANGED <<pc, cfgVars, snapVars, acVars, devVars, gridRows, endVars, histVars>>

\* ------------------------------------------------------ reads of 1 byte
\* firstCharOfInput = buf[countBytesRead - 1] (index.ts:283)
FirstChar(b, count) == b[count]

\* the byte reaches the autocomplete dispatch of index.ts:321: it was not the
\* interrupt, not an end-of-transmission that exits, and not Enter
FallsThrough(first) ==
    /\ first # KeyInterrupt
    /\ ~(first = KeyEot /\ Len(userInput) = 0 /\ promptConfig.eot)
    /\ first # KeyEnter

\* promptConfig.autocomplete?.searchFn && firstCharOfInput === triggerKeyCode
IsTrigger(first) == promptConfig.autocomplete # "none" /\ first = KeyTab

\* ^C: index.ts:285-295
Interrupt ==
    \E rd \in SingleReads :
    LET b == ReadSync(buf, rd)
    IN  /\ pc = "loop"
        /\ FirstChar(b, Len(rd)) = KeyInterrupt
        /\ buf' = b /\ lastRead' = rd
        /\ fdOpen' = FALSE
        /\ IF promptConfig.sigint
           THEN pc' = "exited" /\ exitCode' = ExitInterrupt /\ UNCHANGED <<isRaw, result>>
           ELSE pc' = "returned" /\ isRaw' = wasRaw /\ result' = InterruptReturn
                /\ UNCHANGED exitCode
        /\ NoPress /\ NoNav /\ NoTyped
        /\ UNCHANGED <<cfgVars, lineVars, snapVars, acVars, scrVars, histVars>>

\* ^D on an empty line with eot: index.ts:297-303
EotExit ==
    \E rd \in SingleReads :
    LET b == ReadSync(buf, rd)
    IN  /\ pc = "loop"
        /\ FirstChar(b, Len(rd)) = KeyEot
        /\ Len(userInput) = 0 /\ promptConfig.eot
        /\ buf' = b /\ lastRead' = rd
        /\ pc' = "exited" /\ exitCode' = ExitEot
        /\ NoPress /\ NoNav /\ NoTyped
        /\ UNCHANGED <<cfgVars, lineVars, snapVars, acVars, devVars, scrVars, result,
                       histVars>>

\* Enter: index.ts:310-319, then the loop exit of index.ts:368-371
Submit ==
    \E rd \in SingleReads :
    LET b == ReadSync(buf, rd)
    IN  /\ pc = "loop"
        /\ FirstChar(b, Len(rd)) = KeyEnter
        /\ buf' = b /\ lastRead' = rd
        /\ gridRows' = ClearSuggestTable(gridRows, numRowsToClear)
        /\ fdOpen' = FALSE
        /\ IF promptConfig.history
           THEN /\ hist' = (IF Pushes THEN Append(hist, userInput) ELSE hist)
                /\ hIx' = Len(hist')
           ELSE UNCHANGED histVars
        /\ isRaw' = wasRaw
        /\ result' = ReturnValue(userInput, DefaultValue(value))
        /\ pc' = "returned"
        /\ NoPress /\ NoNav /\ NoTyped
        /\ UNCHANGED <<cfgVars, lineVars, snapVars, acVars, shown, exitCode>>

\* a byte that is not the trigger key: index.ts:336-343, then 345-365
PlainKey(rd) ==
    LET b == ReadSync(buf, rd)
        first == FirstChar(b, Len(rd))
        e == EditKey(first, userInput, insertPosition)
    IN  /\ pc = "loop"
        /\ FallsThrough(first) /\ ~IsTrigger(first)
        /\ Len(e.userInput) <= MaxLen
        /\ buf' = b /\ lastRead' = rd
        /\ autoCompleteSearchTerm' = Undefined
        /\ autocompleteCycleIndex' = 0
        /\ gridRows' = ClearSuggestTable(gridRows, numRowsToClear)
        /\ userInput' = e.userInput
        /\ insertPosition' = e.insertPosition
        /\ shown' = (IF e.printed THEN PromptPrintLine(promptConfig, e.userInput) ELSE shown)
        /\ NoPress /\ NoNav
        /\ UNCHANGED <<pc, cfgVars, snapVars, numRowsToClear, devVars, endVars, histVars>>

Backspace ==
    \E rd \in SingleReads :
        /\ rd[1] = KeyBackspace \/ (IsWin32 /\ rd[1] = KeyBackspaceWin)
        /\ PlainKey(rd)
        /\ NoTyped

Printable ==
    \E rd \in SingleReads :
        /\ rd[1] >= MinPrintable /\ rd[1] <= MaxPrintable
        /\ PlainKey(rd)
        /\ typed' = (IF typed = Undefined THEN Undefined ELSE Append(typed, rd[1]))

Ignored ==
    \E rd \in SingleReads :
        /\ rd[1] # KeyBackspace /\ ~(IsWin32 /\ rd[1] = KeyBackspaceWin)
        /\ rd[1] < MinPrintable \/ rd[1] > MaxPrintable
        /\ PlainKey(rd)
        /\ NoTyped

\* the run of consecutive trigger presses a cycle press belongs to: how many
\* presses, the line the first one found, the line it left, and whether the
\* first one found no session left over (no term, index 0)
Pressed ==
    /\ presses' = presses + 1
    /\ sessTerm' = (IF presses = 0 THEN userInput ELSE sessTerm)
    /\ firstSel' = (IF presses = 0 THEN userInput' ELSE firstSel)
    /\ sessFresh' = (IF presses = 0
                     THEN autoCompleteSearchTerm = << >> /\ autocompleteCycleIndex = 0
                     ELSE sessFresh)

\* trigger key, behavior cycle: autocompleteCycle, index.ts:135-164
TriggerCycle ==
    \E rd \in SingleReads :
    LET b == ReadSync(buf, rd)
        first == FirstChar(b, Len(rd))
        term == IF Len(autoCompleteSearchTerm) = 0 THEN userInput
                ELSE autoCompleteSearchTerm
        searchResults == SearchPrefix(term)
        index == NextCycleIndex(autocompleteCycleIndex, Len(searchResults))
        currentResult == searchResults[index + 1]
        replaces == Len(searchResults) # 0 /\ Truthy(currentResult)
        line == IF replaces THEN currentResult ELSE userInput
        pos == IF replaces THEN Len(currentResult) ELSE insertPosition
        e == EditKey(first, line, pos)
    IN  /\ pc = "loop"
        /\ FallsThrough(first) /\ IsTrigger(first)
        /\ promptConfig.autocomplete = "cycle"
        /\ presses < MaxPresses
        /\ buf' = b /\ lastRead' = rd
        /\ IF autoCompleteSearchTerm = Undefined
           THEN \* undefined.length: TypeError
                /\ pc' = "threw"
                /\ UNCHANGED <<lineVars, acVars, shown>>
                /\ NoPress
           ELSE /\ pc' = pc
                /\ autoCompleteSearchTerm' = term
                /\ searchArg' = term
                /\ autocompleteCycleIndex' =
                       (IF Len(searchResults) = 0 THEN autocompleteCycleIndex ELSE index)
                /\ userInput' = e.userInput
                /\ insertPosition' = e.insertPosition
                /\ shown' = (IF e.printed THEN PromptPrintLine(promptConfig, e.userInput)
                             ELSE IF replaces THEN currentResult ELSE shown)
                /\ Pressed
                /\ UNCHANGED numRowsToClear
        /\ NoNav /\ NoTyped
        /\ UNCHANGED <<cfgVars, snapVars, devVars, gridRows, endVars, histVars>>

\* trigger key, behavior suggest: autocompleteSuggest, index.ts:166-186
TriggerSuggest ==
    \E rd \in SingleReads :
    LET b == ReadSync(buf, rd)
        first == FirstChar(b, Len(rd))
        searchResults == SearchPrefix(userInput)
        found == Len(searchResults) # 0
        rowCount == RowCount(Len(searchResults))
        pos == IF found THEN Len(userInput) ELSE insertPosition
        e == EditKey(first, userInput, pos)
    IN  /\ pc = "loop"
        /\ FallsThrough(first) /\ IsTrigger(first)
        /\ promptConfig.autocomplete = "suggest"
        /\ buf' = b /\ lastRead' = rd
        /\ searchArg' = userInput
        /\ numRowsToClear' = (IF found THEN rowCount ELSE 0)
        /\ gridRows' = (IF found THEN gridRows \cup (1..rowCount) ELSE gridRows)
        /\ userInput' = e.userInput
        /\ insertPosition' = e.insertPosition
        /\ shown' = (IF e.printed THEN PromptPrintLine(promptConfig, e.userInput)
                     ELSE IF found THEN userInput ELSE shown)
        /\ presses' = 0 /\ sessTerm' = << >> /\ firstSel' = << >> /\ sessFresh' = FALSE
        /\ NoNav /\ NoTyped
        /\ UNCHANGED <<pc, cfgVars, snapVars, autoCompleteSearchTerm,
                       autocompleteCycleIndex, devVars, endVars, histVars>>

\* trigger key, behavior hybrid: index.ts:332-334, nothing is done
TriggerHybrid ==
    \E rd \in SingleReads :
    LET b == ReadSync(buf, rd)
        first == FirstChar(b, Len(rd))
        e == EditKey(first, userInput, insertPosition)
    IN  /\ pc = "loop"
        /\ FallsThrough(first) /\ IsTrigger(first)
        /\ promptConfig.autocomplete = "hybrid"
        /\ buf' = b /\ lastRead' = rd
        /\ userInput' = e.userInput
        /\ insertPosition' = e.insertPosition
        /\ shown' = (IF e.printed THEN PromptPrintLine(promptConfig, e.userInput) ELSE shown)
        /\ NoPress
        /\ NoNav /\ NoTyped
        /\ UNCHANGED <<pc, cfgVars, snapVars, acVars, devVars, gridRows, endVars, histVars>>

Next ==
    \/ Invoke
    \/ UpArrow
    \/ DownArrow
    \/ LeftArrow
    \/ RightArrow
    \/ Literal
    \/ Interrupt
    \/ EotExit
    \/ Submit
    \/ Backspace
    \/ Printable
    \/ Ignored
    \/ TriggerCycle
    \/ TriggerSuggest
    \/ TriggerHybrid

Spec == Init /\ [][Next]_vars

\* ----------------------------------------------------------------- claims
\* the byte of the last single-byte read ended the invocation
EndedBy(key) == pc \in {"returned", "exited"} /\ buf[1] = key

\* the mask character repeated to the length of the line
MaskOf(str) == [ i \in 1..Len(str) |-> promptConfig.echo ]

\* C1: the loop never ends in a runtime error, whatever keys are read.
C1_NeverThrows == pc # "threw"

\* C2: in masked mode the text shown after the prompt is always the mask
\* character repeated len(content) times, never the content itself.
C2_MaskedRendering == Masked(promptConfig) => shown = MaskOf(userInput)

\* C3: on every exit path (return or process exit) the device is closed and
\* the raw-mode flag is back to what it was before the invocation.
C3_DeviceReleased ==
    pc \in {"returned", "exited"} => (~fdOpen /\ isRaw = wasRaw)

\* C4: when Enter ends the loop the invocation returns the line if it is not
\* empty, else the default string if one was given, else the empty string.
C4_ReturnValue ==
    (pc = "returned" /\ EndedBy(KeyEnter)) =>
        result = (IF userInput # << >> THEN userInput
                  ELSE IF IsString(value) THEN value ELSE << >>)

C4_Witness ==
    /\ pc = "returned" /\ EndedBy(KeyEnter)
    /\ userInput = << >> /\ value = <<ChY>> /\ result = <<ChY>>

\* C5: a single-byte read of the interrupt byte with sigint off returns null,
\* with the device closed, the raw-mode flag restored and the history left
\* alone; with sigint on the process exits with status 130.
C5_InterruptReturnsNull ==
    [][ (pc = "loop" /\ buf'[1] = KeyInterrupt) =>
            IF promptConfig.sigint
            THEN pc' = "exited" /\ exitCode' = ExitInterrupt
            ELSE /\ pc' = "returned" /\ result' = Null
                 /\ ~fdOpen' /\ isRaw' = wasRaw
                 /\ hist' = hist ]_vars

C5_Witness ==
    /\ pc = "returned" /\ EndedBy(KeyInterrupt) /\ result = Null
    /\ promptConfig.history /\ hIx < Len(hist) /\ userInput # << >>

\* C6: the cursor is always within the line: 0 <= cursor <= len(content).
C6_CursorInBounds == 0 <= insertPosition /\ insertPosition <= Len(userInput)

C6_Witness ==
    /\ pc = "loop" /\ buf = LeftSeq
    /\ insertPosition = 0 /\ Len(userInput) = MaxLen
    /\ savedUserInput # << >>

\* C7: from pastEnd, k up presses (k at most the number of history lines)
\* followed by k down presses give back the line and the cursor that were
\* current before the first up press, and leave the history at pastEnd.
C7_HistoryReversible ==
    (navUps >= 1 /\ navUps <= Len(hist) /\ navDowns = navUps) =>
        /\ userInput = navBase[1]
        /\ insertPosition = navBase[2]
        /\ hIx = Len(hist)

C7_Witness ==
    /\ navUps = 2 /\ navDowns = 2
    /\ Len(navBase[1]) = 2 /\ navBase[2] = 1
    /\ userInput = navBase[1]

\* C8: the history grows only when Enter ends the loop with history
\* configured, masking off and a non-empty line, and then by that line; and
\* every Enter with history configured leaves the history at pastEnd.
C8_HistoryPush ==
    [][ /\ (hist' # hist =>
                /\ pc = "loop" /\ pc' = "returned" /\ buf'[1] = KeyEnter
                /\ promptConfig.history /\ ~Masked(promptConfig)
                /\ userInput # << >>
                /\ hist' = Append(hist, userInput))
        /\ ((pc = "loop" /\ buf'[1] = KeyEnter /\ promptConfig.history) =>
                hIx' = Len(hist')) ]_vars

C8_Witness ==
    /\ pc = "returned" /\ EndedBy(KeyEnter)
    /\ Len(hist) = Len(InitHistory) + 1 /\ hist[Len(hist)] = userInput
    /\ hIx = Len(hist)

\* the results of the search for the line the run of presses started from
SessResults == SearchPrefix(sessTerm)

\* C9: in cycle behaviour the k-th consecutive trigger press puts result
\* number (k-1) mod N of the N results on the line, cursor at its end.
C9_CycleSelects ==
    (pc = "loop" /\ sessFresh /\ presses >= 1 /\ Len(SessResults) >= 1) =>
        /\ userInput = SessResults[((presses - 1) % Len(SessResults)) + 1]
        /\ insertPosition = Len(userInput)

\* C10: with N results, the press number N+1 shows again what the first
\* press showed.
C10_CycleWraps ==
    (pc = "loop" /\ sessFresh /\ Len(SessResults) >= 1
        /\ presses = Len(SessResults) + 1) =>
        userInput = firstSel

\* C11: in cycle behaviour every search of a run of consecutive trigger
\* presses is made with the line the first press of the run found, also
\* when that line is empty.
C11_TermFrozen ==
    (pc = "loop" /\ sessFresh /\ presses >= 1) => searchArg = sessTerm

\* C12: every pass of the loop for a key other than the trigger key, arrow
\* keys and multi-byte reads included, leaves no frozen term, the cycle index
\* at 0 and no suggestion grid on the terminal.
C12_NonTriggerResets ==
    [][ (pc = "loop" /\ pc' = "loop" /\ buf'[1] # KeyTab) =>
            /\ autoCompleteSearchTerm' \in {<< >>, Undefined}
            /\ autocompleteCycleIndex' = 0
            /\ gridRows' = {} ]_vars

\* C13: in suggest behaviour a trigger press searches for the line as it is
\* at that press, leaves the line as it is, and records ceil(N / 3) rows for
\* the N results found (0 for none), which are the rows it draws.
C13_SuggestRequeries ==
    [][ (pc = "loop" /\ pc' = "loop" /\ promptConfig.autocomplete = "suggest"
            /\ buf'[1] = KeyTab) =>
            /\ searchArg' = userInput
            /\ userInput' = userInput
            /\ numRowsToClear' = (Len(SearchPrefix(userInput)) + 2) \div 3
            /\ (1..numRowsToClear') \subseteq gridRows' ]_vars

C13_Witness ==
    /\ pc = "loop" /\ promptConfig.autocomplete = "suggest" /\ buf[1] = KeyTab
    /\ searchArg = <<ChC, ChA>> /\ userInput = <<ChC, ChA>>
    /\ numRowsToClear = 1 /\ gridRows = {1, 2}

\* what a read decoded by its first byte alone does to the invocation, the
\* line and the cursor (the trigger key aside)
DecodedByFirstByte(first) ==
    IF first = KeyInterrupt THEN pc' \in {"returned", "exited"}
    ELSE IF first = KeyEnter THEN pc' = "returned"
    ELSE IF first = KeyEot /\ userInput = << >> /\ promptConfig.eot THEN pc' = "exited"
    ELSE IF IsTrigger(first) THEN TRUE
    ELSE IF first = KeyBackspace /\ insertPosition > 0
    THEN /\ userInput' = SubSeq(userInput, 1, insertPosition - 1)
                             \o SubSeq(userInput, insertPosition + 1, Len(userInput))
         /\ insertPosition' = insertPosition - 1
    ELSE IF first >= 32 /\ first <= 126
    THEN /\ userInput' = SubSeq(userInput, 1, insertPosition) \o <<first>>
                             \o SubSeq(userInput, insertPosition + 1, Len(userInput))
         /\ insertPosition' = insertPosition + 1
    ELSE userInput' = userInput /\ insertPosition' = insertPosition

\* C14: a read of 1 or 2 bytes acts as the single character that is its first
\* byte: interrupt, end-of-transmission, Enter, backspace, a printable
\* character inserted, or nothing; never as an arrow key or as pasted text.
C14_ShortReadsByFirstByte ==
    [][ (pc = "loop" /\ Len(lastRead') \in {1, 2}) =>
            DecodedByFirstByte(lastRead'[1]) ]_vars

\* C15: masking does not change cursor movement: a left arrow takes the
\* cursor one place left unless it is at 0, a right arrow one place right
\* unless it is at the end of the line, masked or not.
C15_MaskedCursorMoves ==
    [][ /\ (pc = "loop" /\ lastRead' = LeftSeq) =>
                insertPosition' = (IF insertPosition > 0 THEN insertPosition - 1 ELSE 0)
        /\ (pc = "loop" /\ lastRead' = RightSeq) =>
                insertPosition' = (IF insertPosition < Len(userInput)
                                   THEN insertPosition + 1 ELSE Len(userInput)) ]_vars

\* C16: while the loop runs the recorded row count covers every grid row
\* drawn on the terminal (the claim has it equal to their number), and once
\* Enter has ended the loop no grid row is left on the terminal.
C16_RowCountMatchesGrid ==
    /\ pc = "loop" => gridRows \subseteq 1..numRowsToClear
    /\ (pc = "returned" /\ EndedBy(KeyEnter)) => gridRows = {}

\* C17: when an invocation starts (nothing read yet) the history cursor is at
\* pastEnd, however the invocations before it on the same history ended.
C17_StartsAtPastEnd ==
    (pc = "loop" /\ lastRead = << >> /\ promptConfig.history) => hIx = Len(hist)

\* C18: while the loop runs the history cursor moves only without masking and
\* with a history configured, one entry back only when it is not atStart and
\* one entry forward only when it is not pastEnd; so it stays between the
\* oldest entry and pastEnd.
C18_HistoryProtocol ==
    [][ /\ (pc = "loop" /\ pc' = "loop" /\ hIx' # hIx) =>
                /\ promptConfig.history /\ ~Masked(promptConfig)
                /\ \/ hIx' = hIx - 1 /\ hIx > 0
                   \/ hIx' = hIx + 1 /\ hIx < Len(hist)
        /\ 0 <= hIx' /\ hIx' <= Len(hist') ]_vars

C18_Witness ==
    /\ pc = "loop" /\ lastRead = UpSeq
    /\ promptConfig.history /\ ~Masked(promptConfig)
    /\ hist = << >> /\ hIx = 0

\* C19: a printable byte read alone (the trigger key aside) goes into the
\* line at the cursor, the characters on either side keep their places and
\* the cursor moves one to the right; while only such bytes were read the
\* line is the characters typed, in order, with the cursor at its end.
C19_PrintableInsert ==
    [][ /\ (pc = "loop" /\ Len(lastRead') = 1
                /\ lastRead'[1] >= 32 /\ lastRead'[1] <= 126) =>
                /\ Len(userInput') = Len(userInput) + 1
                /\ \A i \in 1..Len(userInput') :
                       userInput'[i] = (IF i <= insertPosition THEN userInput[i]
                                        ELSE IF i = insertPosition + 1 THEN lastRead'[1]
                                        ELSE userInput[i - 1])
                /\ insertPosition' = insertPosition + 1
        /\ typed' # Undefined =>
                userInput' = typed' /\ insertPosition' = Len(typed') ]_vars

C19_Witness ==
    /\ pc = "loop" /\ lastRead = <<ChC>>
    /\ userInput = <<ChC, ChA>> /\ insertPosition = 1

\* C20: the backspace byte read alone changes nothing when the cursor is at
\* 0; otherwise it removes the character just before the cursor, keeps the
\* others in order and moves the cursor one to the left.
C20_Backspace ==
    [][ (pc = "loop" /\ lastRead' = <<KeyBackspace>>) =>
            IF insertPosition = 0
            THEN userInput' = userInput /\ insertPosition' = 0
            ELSE /\ Len(userInput') = Len(userInput) - 1
                 /\ \A i \in 1..Len(userInput') :
                        userInput'[i] = (IF i < insertPosition THEN userInput[i]
                                         ELSE userInput[i + 1])
                 /\ insertPosition' = insertPosition - 1 ]_vars

C20_Witness ==
    /\ pc = "loop" /\ lastRead = <<KeyBackspace>>
    /\ userInput = <<ChA>> /\ insertPosition = 0 /\ shown = <<ChA>>
====
